---- MODULE Spec2Model ----
(***************************************************************************)
(* Model of src/ty.rs of the reflect crate: the Type / TypeNode tree, its  *)
(* constructors and accessors (reference, reference_mut, dereference,      *)
(* data, get_tuple_type), the lowering Type::syn_to_type and the synthesis *)
(* TypeNode::name_and_generics.                                            *)
(*                                                                         *)
(* Values are records tagged by a "kind" field.  A panic!/unimplemented!   *)
(* is the value Fatal; once an operation has been fatal the run is over.   *)
(* A TokenStream is the sequence of its tokens.                            *)
(***************************************************************************)
EXTENDS Integers, Sequences, FiniteSets, TLC

VARIABLES
    ty,      \* the Type value at hand (NoValue before a lowering)
    syn,     \* the syn::Type handed to syn_to_type (NoValue when none)
    params,  \* the in-scope &[GenericParam] handed to syn_to_type
    last,    \* the operation that acted last
    prev,    \* the receiver (self) of the operation that acted last
    out      \* what the last operation returned when it is not a Type,
             \* or Fatal when it panicked

vars == <<ty, syn, params, last, prev, out>>

RECURSIVE Depth(_), data(_), syn_to_type(_, _), name_and_generics(_)
RECURSIVE SynSet(_)
RECURSIVE StripRefs(_), RefLayers(_), Rewrap(_, _), BorrowTokens(_)
RECURSIVE TypeParamOccurrences(_), IsParamTree(_), TypeParamIdents(_)
RECURSIVE DerefCount(_), Ungroup(_)

-----------------------------------------------------------------------------
(* Bounds of the exploration *)

\* wrapping operations (reference, reference_mut, dereference, tuple) act
\* only on a Type nested less deep than this
MaxDepth == 2
\* nesting depth of the syn::Type inputs
MaxSynDepth == 2
\* longest element list of a tuple built by Type::tuple or of a syn tuple
MaxTupleLen == 2

-----------------------------------------------------------------------------
(* Values *)

NoValue == [kind |-> "None"]
Fatal == [kind |-> "Fatal"]

\* Option<Lifetime>: "None", or the identifier of the lifetime
NoLifetime == "None"

\* enum TypeNode
Infer == [kind |-> "Infer"]
Tuple(types) == [kind |-> "Tuple", elems |-> types]
PrimitiveStr == [kind |-> "PrimitiveStr"]
Reference(lifetime, inner) ==
    [kind |-> "Reference", lifetime |-> lifetime, inner |-> inner]
ReferenceMut(lifetime, inner) ==
    [kind |-> "ReferenceMut", lifetime |-> lifetime, inner |-> inner]
Dereference(inner) == [kind |-> "Dereference", inner |-> inner]
TraitObject(bounds) == [kind |-> "TraitObject", bounds |-> bounds]
DataStructure(name, generics, fields) ==
    [kind |-> "DataStructure", name |-> name, generics |-> generics,
     data |-> fields]
Path(path) == [kind |-> "Path", path |-> path]
TypeParam(ident) == [kind |-> "TypeParam", ident |-> ident]

\* GenericParam::Type(TypeParam { ident }) and the other GenericParam variants
GenericParamType(ident) == [kind |-> "Type", ident |-> ident]
GenericParamLifetime(ident) == [kind |-> "Lifetime", ident |-> ident]

IsRef(t) == t.kind \in {"Reference", "ReferenceMut"}

\* nesting depth of a Type
Depth(t) ==
    CASE t.kind \in {"Reference", "ReferenceMut", "Dereference"} ->
            1 + Depth(t.inner)
      [] t.kind = "Tuple" ->
            IF t.elems = <<>> THEN 0
            ELSE LET ds == {Depth(t.elems[i]) : i \in DOMAIN t.elems}
                 IN  1 + CHOOSE m \in ds : \A d \in ds : d <= m
      [] OTHER -> 0

-----------------------------------------------------------------------------
(* Collaborators of ty.rs that live in other files of the crate *)

\* iter().map(f).collect(): f applied to every element, in order
MapSeq(s, f(_)) ==
    LET RECURSIVE M(_)
        M(i) == IF i > Len(s) THEN <<>> ELSE <<f(s[i])>> \o M(i + 1)
    IN  M(1)

\* Data<T>::map: the same fields, in the same order, each holding the
\* element the closure returned for it
DataMap(fields, elements) ==
    LET RECURSIVE M(_)
        M(i) == IF i > Len(fields) THEN <<>>
                ELSE <<[accessor |-> fields[i].accessor,
                        element |-> elements[i]]>> \o M(i + 1)
    IN  M(1)

\* Path::syn_to_path: the lowered path keeps the segments of the syn path
syn_to_path(path) ==
    [global |-> path.leading_colon, segments |-> path.segments,
     arguments |-> path.arguments]

\* generics::syn_to_type_param_bounds: one TypeParamBound per syn bound
syn_to_type_param_bounds(bounds) ==
    MapSeq(bounds, LAMBDA bound : [kind |-> "Trait", ident |-> bound.trait])

\* comma-joined token sequences (the #(#types),* repetition of quote!)
CommaJoin(names) ==
    LET RECURSIVE J(_)
        J(i) == IF i > Len(names) THEN <<>>
                ELSE (IF i > 1 THEN <<",">> ELSE <<>>) \o names[i] \o J(i + 1)
    IN  J(1)

\* Print<Lifetime>: the tokens of 'ident; nothing for None (Option in quote!)
PrintLifetime(lifetime) ==
    IF lifetime = NoLifetime THEN <<>> ELSE <<"'", lifetime>>

\* Print<TypeParamBound>
PrintBound(bound) == <<bound.ident>>

\* Print<Path>: the segments joined by ::
PrintPath(path) ==
    LET RECURSIVE J(_)
        J(i) == IF i > Len(path.segments) THEN <<>>
                ELSE (IF i > 1 \/ path.global THEN <<"::">> ELSE <<>>)
                     \o <<path.segments[i]>> \o J(i + 1)
    IN  J(1) \o (IF path.arguments THEN <<"<", ">">> ELSE <<>>)

-----------------------------------------------------------------------------
(* impl Type: constructors and accessors *)

unit == Tuple(<<>>)

tuple(types) == Tuple(types)

primitive_str == PrimitiveStr

reference(self) == Reference(NoLifetime, self)

reference_mut(self) == ReferenceMut(NoLifetime, self)

\* dereference that forgets the ReferenceMut arm
dereference_shared_only(self) ==
    CASE self.kind = "Reference" -> self.inner
      [] OTHER -> Dereference(self)

dereference(self) ==
    CASE self.kind = "Reference" -> self.inner
      [] self.kind = "ReferenceMut" -> self.inner
      [] OTHER -> Dereference(self)

\* data whose ReferenceMut arm rewraps the fields as in the Reference arm
data_rewraps_shared(self) ==
    CASE self.kind = "DataStructure" ->
            [kind |-> "Data",
             fields |-> DataMap(self.data,
                 MapSeq(self.data, LAMBDA field : field.element))]
      [] IsRef(self) ->
            LET d == data(self.inner)
            IN  IF d = Fatal THEN Fatal
                ELSE [kind |-> "Data",
                      fields |-> DataMap(d.fields, MapSeq(d.fields,
                          LAMBDA field : Reference(self.lifetime, field.element)))]
      [] OTHER -> Fatal

\* data that looks through a Dereference marker
data_through_dereference(self) ==
    CASE self.kind = "DataStructure" ->
            [kind |-> "Data",
             fields |-> DataMap(self.data,
                 MapSeq(self.data, LAMBDA field : field.element))]
      [] self.kind = "Reference" ->
            LET d == data(self.inner)
            IN  IF d = Fatal THEN Fatal
                ELSE [kind |-> "Data",
                      fields |-> DataMap(d.fields, MapSeq(d.fields,
                          LAMBDA field : Reference(self.lifetime, field.element)))]
      [] self.kind = "ReferenceMut" ->
            LET d == data(self.inner)
            IN  IF d = Fatal THEN Fatal
                ELSE [kind |-> "Data",
                      fields |-> DataMap(d.fields, MapSeq(d.fields,
                          LAMBDA field : ReferenceMut(self.lifetime, field.element)))]
      [] self.kind = "Dereference" -> data(self.inner)
      [] OTHER -> Fatal

\* Data<Type> of the fields, or Fatal
data(self) ==
    CASE self.kind = "DataStructure" ->
            [kind |-> "Data",
             fields |-> DataMap(self.data,
                 MapSeq(self.data, LAMBDA field : field.element))]
      [] self.kind = "Reference" ->
            LET d == data(self.inner)
            IN  IF d = Fatal THEN Fatal
                ELSE [kind |-> "Data",
                      fields |-> DataMap(d.fields, MapSeq(d.fields,
                          LAMBDA field : Reference(self.lifetime, field.element)))]
      [] self.kind = "ReferenceMut" ->
            LET d == data(self.inner)
            IN  IF d = Fatal THEN Fatal
                ELSE [kind |-> "Data",
                      fields |-> DataMap(d.fields, MapSeq(d.fields,
                          LAMBDA field : ReferenceMut(self.lifetime, field.element)))]
      [] OTHER -> Fatal

get_tuple_type(self, index) ==
    IF self.kind = "Tuple" /\ index < Len(self.elems)
    THEN self.elems[index + 1]
    ELSE Fatal

-----------------------------------------------------------------------------
(* Type::syn_to_type *)

\* syn::Type, by variant
SynPath(qself, leading_colon, segments, arguments) ==
    [kind |-> "Path", qself |-> qself, leading_colon |-> leading_colon,
     segments |-> segments, arguments |-> arguments]
SynReference(lifetime, mutability, elem) ==
    [kind |-> "Reference", lifetime |-> lifetime, mutability |-> mutability,
     elem |-> elem]
SynTraitObject(bounds) == [kind |-> "TraitObject", bounds |-> bounds]
SynTuple(elems, trailing_punct) ==
    [kind |-> "Tuple", elems |-> elems, trailing_punct |-> trailing_punct]
\* every other variant: Array, Slice, Ptr, BareFn, Paren, ImplTrait, ...
SynOther == [kind |-> "Other"]

\* syn::Path::get_ident: Some(ident) for a path that is one segment without
\* leading colon or arguments, else "None"
get_ident(path) ==
    IF ~path.leading_colon /\ Len(path.segments) = 1 /\ ~path.arguments
    THEN path.segments[1]
    ELSE "None"

\* the loop without the GenericParam::Type test
matches_any_param(ident, ps) == \E i \in DOMAIN ps : ps[i].ident = ident

\* the loop over params: some GenericParam::Type entry has this identifier
matches_type_param(ident, ps) ==
    \E i \in DOMAIN ps : ps[i].kind = "Type" /\ ps[i].ident = ident

\* the test without the trailing separator
is_single_element(type_tuple) == Len(type_tuple.elems) = 1

\* the test that separates a parenthesized type from a one-element tuple
is_parenthesized(type_tuple) ==
    Len(type_tuple.elems) = 1 /\ ~type_tuple.trailing_punct

syn_to_type(t, ps) ==
    CASE t.kind = "Path" /\ ~t.qself ->
            IF get_ident(t) # "None" /\ matches_type_param(get_ident(t), ps)
            THEN TypeParam(get_ident(t))
            ELSE Path(syn_to_path(t))
      [] t.kind = "Reference" ->
            LET inner == syn_to_type(t.elem, ps)
            IN  IF inner = Fatal THEN Fatal
                ELSE IF t.mutability THEN ReferenceMut(t.lifetime, inner)
                ELSE Reference(t.lifetime, inner)
      [] t.kind = "TraitObject" ->
            TraitObject(syn_to_type_param_bounds(t.bounds))
      [] t.kind = "Tuple" ->
            IF t.elems = <<>> THEN unit
            ELSE IF is_parenthesized(t) THEN syn_to_type(t.elems[1], ps)
            ELSE LET types == MapSeq(t.elems, LAMBDA e : syn_to_type(e, ps))
                 IN  IF \E i \in DOMAIN types : types[i] = Fatal THEN Fatal
                     ELSE Tuple(types)
      [] OTHER -> Fatal

-----------------------------------------------------------------------------
(* TypeNode::name_and_generics *)

Synthesized(name, ps, constraints) ==
    [kind |-> "Ok", name |-> name, params |-> ps, constraints |-> constraints]

\* Print<Type> inside quote!: the tokens of the type's name; printing a
\* type that has no name is fatal
PrintTypeFails(t) == name_and_generics(t) = Fatal

PrintType(t) == name_and_generics(t).name

\* the Tuple arm
tuple_name_and_generics(types) ==
    IF \E i \in DOMAIN types : PrintTypeFails(types[i]) THEN Fatal
    ELSE Synthesized(<<"(">> \o CommaJoin(MapSeq(types, PrintType)) \o <<")">>,
                     <<>>, <<>>)

\* the Reference arm, given the synthesis of inner
reference_name_and_generics(lifetime, r) ==
    IF r = Fatal THEN Fatal
    ELSE Synthesized(<<"&">> \o PrintLifetime(lifetime) \o r.name,
                     r.params, r.constraints)

\* the ReferenceMut arm that starts new parameter and constraint lists
reference_mut_drops_generics(lifetime, r) ==
    IF r = Fatal THEN Fatal
    ELSE Synthesized(<<"&", "mut">> \o PrintLifetime(lifetime) \o r.name,
                     <<>>, <<>>)

\* the ReferenceMut arm, given the synthesis of inner
reference_mut_name_and_generics(lifetime, r) ==
    IF r = Fatal THEN Fatal
    ELSE Synthesized(<<"&", "mut">> \o PrintLifetime(lifetime) \o r.name,
                     r.params, r.constraints)

\* the Dereference arm printing the marker instead of failing
dereference_prints_star(inner) == Synthesized(<<"*">>, <<>>, <<>>)

\* the Dereference arm
dereference_name_and_generics(inner) == Fatal

\* the TraitObject arm that only refuses an empty bound list
trait_object_first_bound(type_param_bound) ==
    IF Len(type_param_bound) = 0 THEN Fatal
    ELSE Synthesized(<<"dyn">> \o PrintBound(type_param_bound[1]), <<>>, <<>>)

\* the TraitObject arm
trait_object_name_and_generics(type_param_bound) ==
    IF Len(type_param_bound) # 1 THEN Fatal
    ELSE Synthesized(<<"dyn">> \o PrintBound(type_param_bound[1]), <<>>, <<>>)

\* the DataStructure arm
data_structure_name_and_generics(node) ==
    Synthesized(<<node.name>>, node.generics.params, node.generics.constraints)

\* the Path arm: quote!(path) has no # before path, so the token stream is
\* the identifier path itself, not the printed binding
path_name_and_generics(path) == Synthesized(<<"path">>, <<>>, <<>>)

name_and_generics(self) ==
    CASE self.kind = "Infer" -> Fatal
      [] self.kind = "Tuple" -> tuple_name_and_generics(self.elems)
      [] self.kind = "PrimitiveStr" -> Synthesized(<<"str">>, <<>>, <<>>)
      [] self.kind = "Reference" ->
            reference_name_and_generics(self.lifetime,
                                        name_and_generics(self.inner))
      [] self.kind = "ReferenceMut" ->
            reference_mut_name_and_generics(self.lifetime,
                                            name_and_generics(self.inner))
      [] self.kind = "Dereference" -> dereference_name_and_generics(self.inner)
      [] self.kind = "TraitObject" -> trait_object_name_and_generics(self.bounds)
      [] self.kind = "DataStructure" -> data_structure_name_and_generics(self)
      [] self.kind = "Path" -> path_name_and_generics(self.path)
      [] self.kind = "TypeParam" ->
            Synthesized(<<>>, <<GenericParamType(self.ident)>>, <<>>)

-----------------------------------------------------------------------------
(* Inputs *)

BoundedSeq(S, n) == UNION {[1..k -> S] : k \in 0..n}

\* the in-scope generic parameter lists of the declaration being lowered
ParamLists ==
    { <<>>,
      <<GenericParamType("T")>>,
      <<GenericParamLifetime("T")>>,
      <<GenericParamLifetime("T"), GenericParamType("T")>>,
      <<GenericParamType("U"), GenericParamType("T")>> }

SynBound(trait) == [trait |-> trait]

SynAtoms ==
    { SynPath(FALSE, FALSE, <<"T">>, FALSE),           \* T
      SynPath(FALSE, FALSE, <<"U">>, FALSE),           \* U
      SynPath(FALSE, FALSE, <<"std", "T">>, FALSE),    \* std::T
      SynPath(FALSE, TRUE, <<"T">>, FALSE),            \* ::T
      SynPath(FALSE, FALSE, <<"T">>, TRUE),            \* T<..>
      SynPath(TRUE, FALSE, <<"T">>, FALSE),            \* <X as Y>::T
      SynOther,
      SynTraitObject(<<>>),
      SynTraitObject(<<SynBound("Trait1")>>),
      SynTraitObject(<<SynBound("Trait1"), SynBound("Trait2")>>),
      SynTuple(<<>>, FALSE) }

\* the further elements of a syn tuple
SynFill == SynPath(FALSE, FALSE, <<"U">>, FALSE)

SynWraps(x) ==
    { SynReference(lt, m, x) : lt \in {NoLifetime, "a"}, m \in BOOLEAN }
    \cup { SynTuple(<<x>> \o MapSeq([i \in 1..n |-> i], LAMBDA i : SynFill), tp) :
              n \in 0..(MaxTupleLen - 1), tp \in BOOLEAN }

\* the syn::Type values nested at most d deep
SynSet(d) ==
    IF d = 0 THEN SynAtoms
    ELSE LET S == SynSet(d - 1) IN S \cup UNION {SynWraps(x) : x \in S}

Field(accessor, element) == [accessor |-> accessor, element |-> element]

Generics(ps, constraints) == [params |-> ps, constraints |-> constraints]

Constraint(ident, bound) == [kind |-> "Type", ident |-> ident, bound |-> bound]

\* TypeNode values the rest of the crate builds and hands to these methods
StructS ==
    DataStructure("S",
        Generics(<<GenericParamLifetime("a"), GenericParamType("T")>>,
                 <<Constraint("T", "Trait1")>>),
        <<Field("x", TypeParam("T")), Field("y", Infer)>>)
StructP ==
    DataStructure("P", Generics(<<>>, <<>>),
        <<Field("0", PrimitiveStr),
          Field("1", Reference("a", PrimitiveStr)),
          Field("2", TypeParam("U"))>>)
StructU == DataStructure("U", Generics(<<GenericParamType("U")>>, <<>>), <<>>)

ExternTypes ==
    { StructS, StructP, StructU, Infer,
      Reference("a", StructS), ReferenceMut("b", StructP) }

\* the further elements handed to Type::tuple
TypeFill == {TypeParam("T"), PrimitiveStr}

-----------------------------------------------------------------------------
(* The state machine: a caller holding one Type and applying the methods *)

Init ==
    /\ \/ /\ syn \in SynSet(MaxSynDepth)
          /\ params \in ParamLists
          /\ ty = NoValue
       \/ /\ syn = NoValue
          /\ params = <<>>
          /\ ty \in ExternTypes
    /\ last = "new"
    /\ prev = NoValue
    /\ out = NoValue

Live == out # Fatal /\ ty # NoValue

Forget == syn' = NoValue /\ params' = <<>>

\* Type::syn_to_type(syn, params)
Lower ==
    /\ syn # NoValue /\ ty = NoValue /\ out # Fatal
    /\ LET r == syn_to_type(syn, params)
       IN  IF r = Fatal
           THEN out' = Fatal /\ ty' = ty
           ELSE out' = NoValue /\ ty' = r
    /\ last' = "syn_to_type"
    /\ prev' = NoValue
    /\ UNCHANGED <<syn, params>>

Unit ==
    /\ Live
    /\ ty' = unit
    /\ last' = "unit" /\ prev' = NoValue /\ out' = NoValue
    /\ Forget

PrimitiveStrOp ==
    /\ Live
    /\ ty' = primitive_str
    /\ last' = "primitive_str" /\ prev' = NoValue /\ out' = NoValue
    /\ Forget

\* Type::tuple(&[ty, ...])
TupleOp ==
    /\ Live /\ Depth(ty) < MaxDepth
    /\ \E rest \in BoundedSeq(TypeFill, MaxTupleLen - 1) :
          ty' = tuple(<<ty>> \o MapSeq(rest, LAMBDA e : e))
    /\ last' = "tuple" /\ prev' = NoValue /\ out' = NoValue
    /\ Forget

ReferenceOp ==
    /\ Live /\ Depth(ty) < MaxDepth
    /\ ty' = reference(ty)
    /\ last' = "reference" /\ prev' = ty /\ out' = NoValue
    /\ Forget

ReferenceMutOp ==
    /\ Live /\ Depth(ty) < MaxDepth
    /\ ty' = reference_mut(ty)
    /\ last' = "reference_mut" /\ prev' = ty /\ out' = NoValue
    /\ Forget

DereferenceOp ==
    /\ Live /\ (IsRef(ty) \/ Depth(ty) < MaxDepth)
    /\ ty' = dereference(ty)
    /\ last' = "dereference" /\ prev' = ty /\ out' = NoValue
    /\ Forget

GetTupleType ==
    /\ Live
    /\ \E index \in 0..MaxTupleLen :
          LET r == get_tuple_type(ty, index)
          IN  IF r = Fatal
              THEN out' = Fatal /\ ty' = ty
              ELSE out' = NoValue /\ ty' = r
    /\ last' = "get_tuple_type" /\ prev' = ty
    /\ Forget

DataOp ==
    /\ Live
    /\ out' = data(ty)
    /\ last' = "data" /\ prev' = ty
    /\ UNCHANGED ty
    /\ Forget

NameAndGenerics ==
    /\ Live
    /\ out' = name_and_generics(ty)
    /\ last' = "name_and_generics" /\ prev' = ty
    /\ UNCHANGED ty
    /\ Forget

Next ==
    \/ Lower
    \/ Unit
    \/ PrimitiveStrOp
    \/ TupleOp
    \/ ReferenceOp
    \/ ReferenceMutOp
    \/ DereferenceOp
    \/ GetTupleType
    \/ DataOp
    \/ NameAndGenerics

Spec == Init /\ [][Next]_vars

-----------------------------------------------------------------------------
(* Vocabulary of the properties *)

\* the node under every leading Reference / ReferenceMut layer
StripRefs(t) == IF IsRef(t) THEN StripRefs(t.inner) ELSE t

\* the leading Reference / ReferenceMut layers, outermost first
RefLayers(t) ==
    IF IsRef(t)
    THEN <<[kind |-> t.kind, lifetime |-> t.lifetime]>> \o RefLayers(t.inner)
    ELSE <<>>

\* t under the given layers, the first layer outermost
Rewrap(layers, t) ==
    IF layers = <<>> THEN t
    ELSE [kind |-> Head(layers).kind, lifetime |-> Head(layers).lifetime,
          inner |-> Rewrap(Tail(layers), t)]

\* the borrow markers of the layers, outermost first
BorrowTokens(layers) ==
    IF layers = <<>> THEN <<>>
    ELSE (IF Head(layers).kind = "ReferenceMut" THEN <<"&", "mut">> ELSE <<"&">>)
         \o (IF Head(layers).lifetime = NoLifetime THEN <<>>
             ELSE <<"'", Head(layers).lifetime>>)
         \o BorrowTokens(Tail(layers))

Concat(seqs) ==
    LET RECURSIVE C(_)
        C(i) == IF i > Len(seqs) THEN <<>> ELSE seqs[i] \o C(i + 1)
    IN  C(1)

\* a TypeParam under Reference, ReferenceMut and Tuple layers only
IsParamTree(t) ==
    CASE t.kind = "TypeParam" -> TRUE
      [] IsRef(t) -> IsParamTree(t.inner)
      [] t.kind = "Tuple" ->
            t.elems # <<>> /\ \A i \in DOMAIN t.elems : IsParamTree(t.elems[i])
      [] OTHER -> FALSE

\* one GenericParam::Type per occurrence of a TypeParam, left to right
TypeParamOccurrences(t) ==
    CASE t.kind = "TypeParam" -> <<GenericParamType(t.ident)>>
      [] IsRef(t) -> TypeParamOccurrences(t.inner)
      [] t.kind = "Tuple" -> Concat(MapSeq(t.elems, TypeParamOccurrences))
      [] OTHER -> <<>>

\* the identifiers of the TypeParam nodes of a Type
TypeParamIdents(t) ==
    CASE t.kind = "TypeParam" -> {t.ident}
      [] t.kind \in {"Reference", "ReferenceMut", "Dereference"} ->
            TypeParamIdents(t.inner)
      [] t.kind = "Tuple" ->
            UNION {TypeParamIdents(t.elems[i]) : i \in DOMAIN t.elems}
      [] OTHER -> {}

\* the number of Dereference markers of a Type
DerefCount(t) ==
    CASE t.kind = "Dereference" -> 1 + DerefCount(t.inner)
      [] IsRef(t) -> DerefCount(t.inner)
      [] t.kind = "Tuple" ->
            LET RECURSIVE Sum(_)
                Sum(i) == IF i > Len(t.elems) THEN 0
                          ELSE DerefCount(t.elems[i]) + Sum(i + 1)
            IN  Sum(1)
      [] OTHER -> 0

\* a syn type without its enclosing one-element groups that have no trailing
\* separator
Ungroup(s) ==
    IF s.kind = "Tuple" /\ Len(s.elems) = 1 /\ ~s.trailing_punct
    THEN Ungroup(s.elems[1])
    ELSE s

\* the outcome of the lowering that has just acted
Lowered == IF out = Fatal THEN Fatal ELSE ty

JustLowered == last = "syn_to_type"
JustSynthesized == last = "name_and_generics"
JustData == last = "data"

-----------------------------------------------------------------------------
(* Properties *)

\* C1: name_and_generics of a TypeParam under Reference, ReferenceMut and
\* Tuple layers returns that TypeParam once per occurrence, and
\* name_and_generics of Tuple(e1..en) returns the concatenation, in element
\* order, of the parameter and constraint lists synthesized for e1..en.
C1_TuplePropagatesGenerics ==
    (JustSynthesized /\ out # Fatal) =>
        /\ IsParamTree(ty) => out.params = TypeParamOccurrences(ty)
        /\ ty.kind = "Tuple" =>
              /\ out.params =
                    Concat(MapSeq(ty.elems,
                        LAMBDA e : name_and_generics(e).params))
              /\ out.constraints =
                    Concat(MapSeq(ty.elems,
                        LAMBDA e : name_and_generics(e).constraints))

\* C2: dereference() right after reference() or reference_mut() gives back
\* the receiver of that reference() / reference_mut(), whatever its variant.
C2_ReferenceRoundTrip ==
    [][(last \in {"reference", "reference_mut"} /\ last' = "dereference")
         => ty' = prev]_vars

C2_Witness ==
    /\ last = "dereference"
    /\ prev = ReferenceMut(NoLifetime, ty)
    /\ ty.kind = "Reference" /\ ty.lifetime # NoLifetime

\* C3: data() of a DataStructure under k Reference / ReferenceMut layers
\* returns the same fields, in the same order, each field type under the same
\* k layers (kind, lifetime and position kept); unwrapped when k = 0.
C3_DataPropagatesLayers ==
    (JustData /\ StripRefs(ty).kind = "DataStructure") =>
        LET fields == StripRefs(ty).data
        IN  /\ out.kind = "Data"
            /\ Len(out.fields) = Len(fields)
            /\ \A i \in DOMAIN fields :
                  /\ out.fields[i].accessor = fields[i].accessor
                  /\ out.fields[i].element =
                        Rewrap(RefLayers(ty), fields[i].element)

C3_Witness ==
    /\ JustData /\ out.kind = "Data" /\ Len(out.fields) >= 2
    /\ ty.kind = "ReferenceMut" /\ ty.lifetime = NoLifetime
    /\ ty.inner.kind = "Reference" /\ ty.inner.lifetime # NoLifetime
    /\ ty.inner.inner.kind = "DataStructure"

\* C4: a path without qself lowers to TypeParam(ident) exactly when it is a
\* single bare identifier that some GenericParam::Type entry of the list
\* carries, and to a Path node otherwise; no lowered Type holds a TypeParam
\* whose identifier is not a GenericParam::Type entry of the list.
C4_TypeParamIffInScope ==
    (JustLowered /\ out # Fatal) =>
        /\ (syn.kind = "Path" /\ ~syn.qself) =>
              LET bare == /\ ~syn.leading_colon /\ ~syn.arguments
                          /\ Len(syn.segments) = 1
                  inScope == \E i \in DOMAIN params :
                                params[i] = GenericParamType(syn.segments[1])
              IN  IF bare /\ inScope
                  THEN ty = TypeParam(syn.segments[1])
                  ELSE ty.kind = "Path" /\ ty.path.segments = syn.segments
        /\ \A ident \in TypeParamIdents(ty) :
              \E i \in DOMAIN params : params[i] = GenericParamType(ident)

C4_Witness ==
    /\ JustLowered /\ syn.kind = "Path" /\ ty.kind = "TypeParam"
    /\ Len(params) = 2 /\ params[1] = GenericParamLifetime(ty.ident)

\* C5: an empty group lowers to unit(); a group of one element without
\* trailing separator lowers as its element does, at any depth of such
\* groups, and not to a Tuple around it; only a group with a trailing
\* separator or several elements makes a Tuple, as long as the group.
C5_ParenthesesAreTransparent ==
    (JustLowered /\ syn.kind = "Tuple") =>
        /\ syn.elems = <<>> => Lowered = unit
        /\ (Len(syn.elems) = 1 /\ ~syn.trailing_punct) =>
              /\ Lowered = syn_to_type(syn.elems[1], params)
              /\ Lowered = syn_to_type(Ungroup(syn), params)
              /\ Lowered # Fatal => Lowered # Tuple(<<Lowered>>)
              /\ (Lowered # Fatal /\ ty.kind = "Tuple") =>
                    Ungroup(syn).kind = "Tuple"
        /\ (Len(syn.elems) >= 2 \/ syn.trailing_punct) =>
              IF \E i \in DOMAIN syn.elems :
                    syn_to_type(syn.elems[i], params) = Fatal
              THEN Lowered = Fatal
              ELSE /\ Lowered # Fatal
                   /\ ty.kind = "Tuple"
                   /\ Len(ty.elems) = Len(syn.elems)
                   /\ \A i \in DOMAIN syn.elems :
                         ty.elems[i] = syn_to_type(syn.elems[i], params)

C5_Witness ==
    /\ JustLowered /\ syn.kind = "Tuple"
    /\ Len(syn.elems) = 1 /\ ~syn.trailing_punct
    /\ syn.elems[1].kind = "Tuple"
    /\ Len(syn.elems[1].elems) = 1 /\ ~syn.elems[1].trailing_punct
    /\ ty.kind = "TypeParam"

\* C6: name_and_generics of a TraitObject succeeds exactly when it has one
\* bound, with the name dyn <bound> and empty lists; lowering keeps every
\* bound of a syn trait object, so a lowered two-bound one is fatal.
C6_TraitObjectArity ==
    /\ (JustSynthesized /\ ty.kind = "TraitObject") =>
          IF Len(ty.bounds) = 1
          THEN out = Synthesized(<<"dyn", ty.bounds[1].ident>>, <<>>, <<>>)
          ELSE out = Fatal
    /\ (JustLowered /\ syn.kind = "TraitObject") =>
          /\ out # Fatal
          /\ ty.kind = "TraitObject"
          /\ Len(ty.bounds) = Len(syn.bounds)
          /\ \A i \in DOMAIN syn.bounds : ty.bounds[i].ident = syn.bounds[i].trait

C6_Witness ==
    /\ JustSynthesized /\ ty.kind = "TraitObject"
    /\ Len(ty.bounds) = 2 /\ out = Fatal

\* C7: name_and_generics of Path(p) returns the printed form of p as the
\* name, with empty parameter and constraint lists.
C7_PathNameIsPrintedPath ==
    (JustSynthesized /\ ty.kind = "Path") =>
        out = Synthesized(PrintPath(ty.path), <<>>, <<>>)

\* C8: data() is fatal exactly when the node under every leading Reference /
\* ReferenceMut layer is not a DataStructure; a Dereference marker around a
\* DataStructure is not looked through.
C8_DataFatalUnlessDataStructure ==
    JustData => (out = Fatal <=> StripRefs(ty).kind # "DataStructure")

C8_Witness ==
    /\ JustData /\ out = Fatal
    /\ IsRef(ty) /\ ty.inner.kind = "Dereference"
    /\ ty.inner.inner.kind = "DataStructure"

\* C9: dereference() of a Type that is no Reference / ReferenceMut is the
\* marker Dereference(t); name_and_generics is fatal on a marker under any
\* Reference / ReferenceMut layers; dereference() of a Reference /
\* ReferenceMut is its inner node and adds no marker.
C9_DereferenceMarker ==
    [][/\ (last' = "dereference" /\ ~IsRef(ty)) =>
            ty' = [kind |-> "Dereference", inner |-> ty]
       /\ (last' = "dereference" /\ IsRef(ty)) =>
            /\ ty' = ty.inner
            /\ DerefCount(ty') = DerefCount(ty)
       /\ (last' = "name_and_generics" /\ StripRefs(ty').kind = "Dereference") =>
            out' = Fatal]_vars

C9_Witness ==
    /\ JustSynthesized /\ out = Fatal
    /\ IsRef(ty) /\ ty.inner.kind = "Dereference"

\* C10: name_and_generics of a DataStructure under any Reference /
\* ReferenceMut layers returns the structure's own parameter and constraint
\* lists, whatever its fields, and its identifier after one borrow marker
\* and optional lifetime per layer, outermost first.
C10_DataStructureGenerics ==
    (JustSynthesized /\ StripRefs(ty).kind = "DataStructure") =>
        LET ds == StripRefs(ty)
        IN  out = Synthesized(BorrowTokens(RefLayers(ty)) \o <<ds.name>>,
                              ds.generics.params, ds.generics.constraints)

C10_Witness ==
    /\ JustSynthesized /\ out.kind = "Ok"
    /\ Len(RefLayers(ty)) = 2
    /\ ty.kind = "ReferenceMut" /\ ty.inner.lifetime # NoLifetime
    /\ StripRefs(ty).kind = "DataStructure"
    /\ \E i \in DOMAIN StripRefs(ty).data :
          StripRefs(ty).data[i].element = Infer
    /\ out.params # <<>> /\ out.constraints # <<>>

====
